---- MODULE Spec2Model ----
(***************************************************************************)
(* Recurrence and reminder engine of the todo application.                 *)
(*                                                                         *)
(* A JavaScript Date is modelled by the wall-clock reading it has in the   *)
(* server's local zone: [day |-> days since 1970-01-01, ms |-> millisecond *)
(* of that day].  getTime() differences are differences of these readings  *)
(* (the server's local zone is taken to have a constant UTC offset).       *)
(* A timestamp string without zone ('yyyy-MM-dd HH:mm:ss' or the           *)
(* datetime-local 'yyyy-MM-ddTHH:mm') is modelled by [day, sec]: it has no *)
(* millisecond field, so formatting a Date drops its milliseconds.         *)
(***************************************************************************)
EXTENDS Integers, Sequences, FiniteSets, TLC

VARIABLES
    tzShift,        \* ms: (UTC offset of Asia/Singapore) - (UTC offset of the server's local zone)
    clock,          \* new Date() on the server
    ticks,          \* number of clock advances so far
    todos,          \* table todos: id -> row
    nextTodoId,     \* AUTOINCREMENT sequence of todos
    subtasks,       \* table subtasks: id -> row
    nextSubtaskId,  \* AUTOINCREMENT sequence of subtasks
    tags,           \* table tags: id -> row
    nextTagId,      \* AUTOINCREMENT sequence of tags
    todoTags,       \* table todo_tags: set of <<todo_id, tag_id>>
    templates,      \* table templates: the rows in the order of their ids
    poller,         \* the client's reminder poller: ms since its last check, or NotPolling
    inflight,       \* PUT /api/todos/[id] requests being handled: request -> position and locals
    resp,           \* the response of the last request
    fired           \* history: per todo, the reminder checks that returned it

vars == <<tzShift, clock, ticks, todos, nextTodoId, subtasks, nextSubtaskId,
          tags, nextTagId, todoTags, templates, inflight, poller, resp, fired>>

\* null of a text column (title, priority, recurrence_pattern)
NULL == "null"
\* null of an integer column (reminder_minutes)
NullInt == -1
\* null of a timestamp column, and a string that is no date at all
NullStamp == [day |-> 0, sec |-> -1]
GarbageStamp == [day |-> 0, sec |-> -2]
\* the Date object "Invalid Date" (getTime() is NaN)
InvalidDate == [day |-> 0, ms |-> -1]

(***************************************************************************)
(* Bounds of the model                                                     *)
(***************************************************************************)
MaxTicks == 2
MaxTodos == 1
MaxStoreTodos == 2
MaxSubtasks == 2
MaxTags == 1
MaxChainCreated == 1
MaxChainTodos == 3
MaxCount == 3
MaxTemplates == 1
MaxCreateTodos == 2
MaxRequests == 2
MaxIsolationTodos == 2

Users == {1, 2}

(***************************************************************************)
(* Time arithmetic                                                         *)
(***************************************************************************)
MsPerSecond == 1000
MsPerMinute == 60 * 1000
MsPerDay == 24 * 60 * MsPerMinute
DedupMinutes == 5

\* new Date(t.getTime() + k)
AddMs(date, k) ==
    LET total == date.ms + k
    IN  [day |-> date.day + (total \div MsPerDay), ms |-> total % MsPerDay]

\* a.getTime() - b.getTime()
DiffMs(a, b) == (a.day - b.day) * MsPerDay + (a.ms - b.ms)

\* a < b on Date objects
DateLT(a, b) == a.day < b.day \/ (a.day = b.day /\ a.ms < b.ms)

\* a >= b on Date objects
DateGE(a, b) == ~DateLT(a, b)

\* new Date(str) for a string without zone: read as local time
ParseLocal(str) ==
    IF str = GarbageStamp \/ str = NullStamp THEN InvalidDate
    ELSE [day |-> str.day, ms |-> str.sec * MsPerSecond]

\* date-fns format(date, 'yyyy-MM-dd HH:mm:ss'): the local reading to the second
FormatLocal(date) == [day |-> date.day, sec |-> date.ms \div MsPerSecond]

\* date-fns-tz toZonedTime(date, 'Asia/Singapore'): a Date whose local reading
\* is the Singapore wall clock of the instant `date`
toZonedTime(date) == AddMs(date, tzShift)

getSingaporeNow == toZonedTime(clock)

formatSingaporeDate(date) == FormatLocal(toZonedTime(date))

parseSingaporeDate(str) == toZonedTime(ParseLocal(str))

isPastDate(str) == DateLT(parseSingaporeDate(str), getSingaporeNow)

(***************************************************************************)
(* Calendar arithmetic of Date (proleptic Gregorian)                       *)
(***************************************************************************)
IsLeap(y) == (y % 4 = 0 /\ y % 100 # 0) \/ y % 400 = 0

DaysInMonth(y, m) ==
    IF m = 2 THEN (IF IsLeap(y) THEN 29 ELSE 28)
    ELSE IF m \in {4, 6, 9, 11} THEN 30 ELSE 31

\* day number of the civil date y-m-d
DaysFromCivil(y, m, d) ==
    LET yy  == IF m <= 2 THEN y - 1 ELSE y
        era == yy \div 400
        yoe == yy - era * 400
        mp  == IF m > 2 THEN m - 3 ELSE m + 9
        doy == (153 * mp + 2) \div 5 + d - 1
        doe == yoe * 365 + yoe \div 4 - yoe \div 100 + doy
    IN  era * 146097 + doe - 719468

\* civil date [y, m, d] of a day number
CivilFromDays(z) ==
    LET zz  == z + 719468
        era == zz \div 146097
        doe == zz - era * 146097
        yoe == (doe - doe \div 1460 + doe \div 36524 - doe \div 146096) \div 365
        doy == doe - (365 * yoe + yoe \div 4 - yoe \div 100)
        mp  == (5 * doy + 2) \div 153
        d   == doy - (153 * mp + 2) \div 5 + 1
        m   == IF mp < 10 THEN mp + 3 ELSE mp - 9
    IN  [y |-> (yoe + era * 400) + (IF m <= 2 THEN 1 ELSE 0), m |-> m, d |-> d]

\* date-fns addDays(date, n): setDate(getDate() + n), time of day kept
addDays(date, n) == [day |-> date.day + n, ms |-> date.ms]

addWeeks(date, n) == addDays(date, 7 * n)

\* date-fns addMonths(date, n): same day of the target month, clamped to its
\* last day; time of day kept
addMonths(date, n) ==
    LET c     == CivilFromDays(date.day)
        idx   == (c.y * 12 + (c.m - 1)) + n
        ty    == idx \div 12
        tm    == (idx % 12) + 1
        tdays == DaysInMonth(ty, tm)
        td    == IF c.d >= tdays THEN tdays ELSE c.d
    IN  [day |-> DaysFromCivil(ty, tm, td), ms |-> date.ms]

addYears(date, n) == addMonths(date, 12 * n)

RecurrencePatterns == {"daily", "weekly", "monthly", "yearly"}

\* stands for the exception calculateNextDueDate throws
Thrown == [day |-> 0, sec |-> -3]

\* a switch whose default case advances by one day instead of throwing
calculateNextDueDate_defaultDaily(currentDueDate, pattern) ==
    IF ParseLocal(currentDueDate) = InvalidDate THEN Thrown
    ELSE LET current == toZonedTime(ParseLocal(currentDueDate))
         IN  CASE pattern = "weekly"  -> formatSingaporeDate(addWeeks(current, 1))
               [] pattern = "monthly" -> formatSingaporeDate(addMonths(current, 1))
               [] pattern = "yearly"  -> formatSingaporeDate(addYears(current, 1))
               [] OTHER               -> formatSingaporeDate(addDays(current, 1))
calculateNextDueDate(currentDueDate, pattern) ==
    IF ParseLocal(currentDueDate) = InvalidDate THEN Thrown
    ELSE LET current == toZonedTime(ParseLocal(currentDueDate))
         IN  CASE pattern = "daily"   -> formatSingaporeDate(addDays(current, 1))
               [] pattern = "weekly"  -> formatSingaporeDate(addWeeks(current, 1))
               [] pattern = "monthly" -> formatSingaporeDate(addMonths(current, 1))
               [] pattern = "yearly"  -> formatSingaporeDate(addYears(current, 1))
               [] OTHER               -> Thrown

\* the loop of calculateNextOccurrences: the list after `left` more rounds
RECURSIVE occurrencesFrom(_, _, _, _)
occurrencesFrom(occurrences, current, pattern, left) ==
    IF left <= 0 THEN occurrences
    ELSE LET next == calculateNextDueDate(current, pattern)
         IN  occurrencesFrom(Append(occurrences, next), next, pattern, left - 1)

\* a list that starts with the first date after startDate
calculateNextOccurrences_withoutStart(startDate, pattern, count) ==
    occurrencesFrom(<<>>, startDate, pattern, count)
calculateNextOccurrences(startDate, pattern, count) ==
    occurrencesFrom(<<startDate>>, startDate, pattern, count - 1)

(***************************************************************************)
(* Values of the model                                                     *)
(***************************************************************************)
\* Singapore wall clock at the start: 2026-01-31 12:00:00.000
CivilEpoch == [day |-> DaysFromCivil(2026, 1, 31), ms |-> 12 * 60 * MsPerMinute]

\* Server zones: Asia/Singapore itself, UTC, Asia/Tokyo
ServerShifts == {0, 8 * 60 * MsPerMinute, -(60 * MsPerMinute)}

\* clock advances: 0.9 s, 1 min, 4 min 59.1 s
TickSteps == {900, MsPerMinute, 299100}

\* 'yyyy-MM-ddTHH:mm' on 2026-01-31
DueAt(h, mi) == [day |-> DaysFromCivil(2026, 1, 31), sec |-> (h * 60 + mi) * 60]

Trim(s) == CASE s = " a" -> "a" [] s = "  " -> "" [] OTHER -> s

Priorities == {"high", "medium", "low"}

\* JavaScript truthiness of a text value and of a number
Truthy(v) == v # NULL /\ v # ""

TruthyNum(v) == v # NullInt /\ v # 0

(***************************************************************************)
(* Initial state: the schema has been created, every table is empty        *)
(***************************************************************************)
\* no response is being delivered
NoResponse == [status |-> 0]

\* the poller does not run (notification permission not granted)
NotPolling == -1

\* setInterval(checkReminders, 60 * 1000)
PollInterval == 60 * MsPerSecond

InitWith(shifts, polling) ==
    /\ tzShift \in shifts
    /\ clock = AddMs(CivilEpoch, -tzShift)
    /\ ticks = 0
    /\ todos = <<>>
    /\ nextTodoId = 1
    /\ subtasks = <<>>
    /\ nextSubtaskId = 1
    /\ tags = <<>>
    /\ nextTagId = 1
    /\ todoTags = {}
    /\ templates = <<>>
    /\ inflight = <<>>
    /\ poller = polling
    /\ resp = NoResponse
    /\ fired = <<>>

InitIn(shifts) == InitWith(shifts, NotPolling)

Init == InitIn(ServerShifts)

\* the server runs in UTC or in Asia/Singapore
InitStore == InitIn({0, 8 * 60 * MsPerMinute})

\* the poller has just made its initial check
InitPoll == InitWith(ServerShifts, 0)

\* last: `now` of the last check that returned the todo; count: the number of
\* checks (0, 1, or 2 for two and more) that returned it since its due date and
\* lead time were last written
NoFire == [last |-> InvalidDate, count |-> 0]

\* the server clock advances
\* a poller that lets two intervals pass between checks
pollerAllows_twoIntervals(step) ==
    poller = NotPolling \/ poller + step <= 2 * PollInterval
\* a running poller checks again before more than one interval has passed
pollerAllows(step) ==
    poller = NotPolling \/ poller + step <= PollInterval

Tick(step) ==
    /\ ticks < MaxTicks
    /\ pollerAllows(step)
    /\ clock' = AddMs(clock, step)
    /\ ticks' = ticks + 1
    /\ poller' = IF poller = NotPolling THEN poller ELSE poller + step
    /\ resp' = NoResponse
    /\ UNCHANGED <<templates, inflight, tzShift, todos, nextTodoId, subtasks, nextSubtaskId,
                   tags, nextTagId, todoTags, fired>>

(***************************************************************************)
(* todoDB                                                                  *)
(***************************************************************************)
\* todoDB.create: the inserted row
todoDB_create(data) ==
    [user_id                |-> data.user_id,
     title                  |-> Trim(data.title),
     due_date               |-> data.due_date,
     priority               |-> IF Truthy(data.priority) THEN data.priority ELSE "medium",
     completed              |-> 0,
     completed_at           |-> NullStamp,
     recurrence_pattern     |-> IF Truthy(data.recurrence_pattern)
                                THEN data.recurrence_pattern ELSE NULL,
     reminder_minutes       |-> IF TruthyNum(data.reminder_minutes)
                                THEN data.reminder_minutes ELSE NullInt,
     last_notification_sent |-> NullStamp]

\* todoDB.findByUser(userId) without options: incomplete todos of the user
findByUser(userId) ==
    {id \in DOMAIN todos : todos[id].user_id = userId /\ todos[id].completed = 0}

(***************************************************************************)
(* POST /api/todos                                                         *)
(***************************************************************************)
CreateTodo(u, body, cap) ==
    /\ nextTodoId <= cap
    /\ LET bad == \/ ~Truthy(body.title) \/ Trim(body.title) = ""
                  \/ body.due_date = NullStamp
                  \/ isPastDate(body.due_date)
                  \/ (Truthy(body.priority) /\ body.priority \notin Priorities)
                  \/ (Truthy(body.recurrence_pattern)
                        /\ body.recurrence_pattern \notin RecurrencePatterns)
                  \/ (body.reminder_minutes # NullInt /\ body.reminder_minutes <= 0)
       IN  IF bad
           THEN /\ resp' = [status |-> 400]
                /\ UNCHANGED <<todos, nextTodoId, fired>>
           ELSE /\ todos' = todos @@ (nextTodoId :> todoDB_create(
                                [user_id |-> u, title |-> body.title,
                                 due_date |-> body.due_date,
                                 priority |-> IF Truthy(body.priority)
                                              THEN body.priority ELSE "medium",
                                 recurrence_pattern |-> IF Truthy(body.recurrence_pattern)
                                              THEN body.recurrence_pattern ELSE NULL,
                                 reminder_minutes |-> IF TruthyNum(body.reminder_minutes)
                                              THEN body.reminder_minutes ELSE NullInt]))
                /\ nextTodoId' = nextTodoId + 1
                /\ fired' = fired @@ (nextTodoId :> NoFire)
                /\ resp' = [status |-> 201]
    /\ UNCHANGED <<poller, templates, inflight, tzShift, clock, ticks, subtasks, nextSubtaskId, tags, nextTagId, todoTags>>

(***************************************************************************)
(* GET /api/notifications/check                                            *)
(***************************************************************************)
\* a de-duplication step that lets every todo pass
recentlySent_never(todo, now) == FALSE
\* the todo has a last_notification_sent less than 5 minutes before now
recentlySent(todo, now) ==
    /\ todo.last_notification_sent # NullStamp
    /\ DiffMs(now, ParseLocal(todo.last_notification_sent)) < DedupMinutes * (60 * 1000)

\* the filter callback with the window closed on the right: now <= dueTime
inReminderFilter_closedAtDue(todo, now) ==
    /\ ~TruthyNum(todo.completed)
    /\ TruthyNum(todo.reminder_minutes)
    /\ ParseLocal(todo.due_date) # InvalidDate
    /\ LET dueTime      == ParseLocal(todo.due_date)
           reminderTime == AddMs(dueTime, -(todo.reminder_minutes * 60 * 1000))
       IN  /\ DateGE(now, reminderTime) /\ DateGE(dueTime, now)
           /\ ~recentlySent(todo, now)
\* the filter callback of the reminder check
inReminderFilter(todo, now) ==
    /\ ~TruthyNum(todo.completed)
    /\ TruthyNum(todo.reminder_minutes)
    /\ ParseLocal(todo.due_date) # InvalidDate
    /\ LET dueTime      == ParseLocal(todo.due_date)
           reminderTime == AddMs(dueTime, -(todo.reminder_minutes * 60 * 1000))
       IN  /\ DateGE(now, reminderTime) /\ DateLT(now, dueTime)
           /\ ~recentlySent(todo, now)

\* the check reading every todo of the user and not testing the completed flag
dueReminders_completedToo(u, now) ==
    {id \in DOMAIN todos : /\ todos[id].user_id = u
                           /\ inReminderFilter([todos[id] EXCEPT !.completed = 0], now)}
\* the ids of the todos the check returns
dueReminders(u, now) == {id \in findByUser(u) : inReminderFilter(todos[id], now)}

\* Math.round((dueTime - now) / 60000)
minutesUntilDue(todo, now) ==
    (DiffMs(ParseLocal(todo.due_date), now) + 30000) \div (60 * 1000)

CheckNotifications(u) ==
    LET now      == getSingaporeNow
        returned == dueReminders(u, now)
    IN  /\ todos' = [id \in DOMAIN todos |->
                       IF id \in returned
                       THEN [todos[id] EXCEPT !.last_notification_sent = formatSingaporeDate(now)]
                       ELSE todos[id]]
        /\ resp' = [status |-> 200, user |-> u,
                    reminders |-> {[id |-> id,
                                    last_notification_sent |-> todos[id].last_notification_sent,
                                    minutesUntilDue |-> minutesUntilDue(todos[id], now)]
                                     : id \in returned}]
        /\ fired' = [id \in DOMAIN fired |->
                       IF id \in returned
                       THEN [last |-> now,
                             count |-> IF fired[id].count < 2 THEN fired[id].count + 1 ELSE 2]
                       ELSE fired[id]]
        /\ poller' = IF poller = NotPolling THEN poller ELSE 0
        /\ UNCHANGED <<templates, inflight, tzShift, clock, ticks, nextTodoId, subtasks, nextSubtaskId,
                       tags, nextTagId, todoTags>>

(***************************************************************************)
(* Requests that end in an error response change nothing but the response  *)
(***************************************************************************)
Reject(status) ==
    /\ resp' = [status |-> status]
    /\ UNCHANGED <<poller, templates, inflight, tzShift, clock, ticks, todos, nextTodoId, subtasks, nextSubtaskId,
                   tags, nextTagId, todoTags, fired>>

Has(body, key) == key \in DOMAIN body

(***************************************************************************)
(* subtaskDB                                                               *)
(***************************************************************************)
\* subtaskDB.create: the inserted row
subtaskDB_create(data) ==
    [todo_id |-> data.todo_id, title |-> Trim(data.title),
     completed |-> 0, position |-> data.position]

\* subtaskDB.findByTodo: the ids of the subtasks of a todo
findByTodo(todoId) == {s \in DOMAIN subtasks : subtasks[s].todo_id = todoId}

\* ORDER BY position ASC, created_at ASC (rows of one second in insertion order)
SubtaskBefore(a, b) ==
    \/ subtasks[a].position < subtasks[b].position
    \/ (subtasks[a].position = subtasks[b].position /\ a < b)

\* index of a subtask in the list findByTodo returns
SubtaskRank(s) ==
    Cardinality({x \in findByTodo(subtasks[s].todo_id) : SubtaskBefore(x, s)})

(***************************************************************************)
(* todoDB.createRecurringInstance                                          *)
(***************************************************************************)
\* the row of the next instance
spawnRow(parentTodo) ==
    todoDB_create([user_id            |-> parentTodo.user_id,
                   title              |-> parentTodo.title,
                   due_date           |-> calculateNextDueDate(parentTodo.due_date,
                                              parentTodo.recurrence_pattern),
                   priority           |-> parentTodo.priority,
                   recurrence_pattern |-> parentTodo.recurrence_pattern,
                   reminder_minutes   |-> parentTodo.reminder_minutes])

\* the tag associations moved to the next instance instead of copied
spawnTags_moved(newId, parentId) ==
    {x \in todoTags : x[1] # parentId}
        \cup {<<newId, tt[2]>> : tt \in {x \in todoTags : x[1] = parentId}}
\* INSERT INTO todo_tags (todo_id, tag_id) SELECT ?, tag_id FROM todo_tags WHERE todo_id = ?
spawnTags(newId, parentId) ==
    todoTags \cup {<<newId, tt[2]>> : tt \in {x \in todoTags : x[1] = parentId}}

\* subtasks.forEach(subtask => subtaskDB.create(...)): the table afterwards
spawnSubtasks(newId, parentId) ==
    LET src == findByTodo(parentId)
        new == nextSubtaskId .. (nextSubtaskId + Cardinality(src) - 1)
    IN  subtasks @@
        [n \in new |->
            LET s == CHOOSE x \in src : SubtaskRank(x) = n - nextSubtaskId
            IN  subtaskDB_create([todo_id |-> newId, title |-> subtasks[s].title,
                                  position |-> subtasks[s].position])]

(***************************************************************************)
(* PUT /api/todos/[id]                                                     *)
(***************************************************************************)
\* an update that also clears the reminder lead time when it completes a todo
updatedRow_clearsReminder(todo, body) ==
    LET isCompleting == Has(body, "completed") /\ body.completed = 1 /\ todo.completed = 0
    IN  [user_id   |-> todo.user_id,
         title     |-> IF Has(body, "title") THEN Trim(body.title) ELSE todo.title,
         due_date  |-> IF Has(body, "due_date") THEN body.due_date ELSE todo.due_date,
         priority  |-> IF Has(body, "priority") THEN body.priority ELSE todo.priority,
         completed |-> IF Has(body, "completed") THEN body.completed ELSE todo.completed,
         completed_at |->
             IF ~Has(body, "completed") THEN todo.completed_at
             ELSE IF isCompleting THEN formatSingaporeDate(getSingaporeNow)
             ELSE IF body.completed = 0 THEN NullStamp
             ELSE todo.completed_at,
         recurrence_pattern |-> IF Has(body, "recurrence_pattern")
                                THEN body.recurrence_pattern ELSE todo.recurrence_pattern,
         reminder_minutes   |-> IF isCompleting THEN NullInt
                                ELSE IF Has(body, "reminder_minutes")
                                THEN body.reminder_minutes ELSE todo.reminder_minutes,
         last_notification_sent |-> todo.last_notification_sent]
\* updateData applied to the stored row by todoDB.update
updatedRow(todo, body) ==
    LET isCompleting == Has(body, "completed") /\ body.completed = 1 /\ todo.completed = 0
    IN  [user_id   |-> todo.user_id,
         title     |-> IF Has(body, "title") THEN Trim(body.title) ELSE todo.title,
         due_date  |-> IF Has(body, "due_date") THEN body.due_date ELSE todo.due_date,
         priority  |-> IF Has(body, "priority") THEN body.priority ELSE todo.priority,
         completed |-> IF Has(body, "completed") THEN body.completed ELSE todo.completed,
         completed_at |->
             IF ~Has(body, "completed") THEN todo.completed_at
             ELSE IF isCompleting THEN formatSingaporeDate(getSingaporeNow)
             ELSE IF body.completed = 0 THEN NullStamp
             ELSE todo.completed_at,
         recurrence_pattern |-> IF Has(body, "recurrence_pattern")
                                THEN body.recurrence_pattern ELSE todo.recurrence_pattern,
         reminder_minutes   |-> IF Has(body, "reminder_minutes")
                                THEN body.reminder_minutes ELSE todo.reminder_minutes,
         last_notification_sent |-> todo.last_notification_sent]

\* the completion branch working on the row with the update applied
spawnParent_updated(todo, body) == updatedRow(todo, body)
\* the row the completion branch tests and hands to createRecurringInstance:
\* the todo as read before the update
spawnParent(todo, body) == todo

\* a completion branch entered by every request that carries the completed flag
shouldSpawn_anyCompletedWrite(todo, body) ==
    /\ Has(body, "completed")
    /\ Truthy(spawnParent(todo, body).recurrence_pattern)
\* the completion branch creates the next instance
shouldSpawn(todo, body) ==
    /\ Has(body, "completed")
    /\ body.completed = 1 /\ todo.completed = 0
    /\ Truthy(spawnParent(todo, body).recurrence_pattern)

\* UPDATE todos SET due_date = NULL violates NOT NULL: todoDB.update throws
updateThrows(body) == Has(body, "due_date") /\ body.due_date = NullStamp

PutTodo(u, id, body, cap) ==
    IF id \notin DOMAIN todos THEN Reject(404)
    ELSE IF todos[id].user_id # u THEN Reject(403)
    ELSE IF \/ (Has(body, "title") /\ Trim(body.title) = "")
            \/ (Has(body, "priority") /\ body.priority \notin Priorities)
            \/ (Has(body, "recurrence_pattern") /\ body.recurrence_pattern # NULL
                  /\ body.recurrence_pattern \notin RecurrencePatterns)
         THEN Reject(400)
    ELSE LET todo == todos[id] IN
         IF shouldSpawn(todo, body)
         THEN IF calculateNextDueDate(spawnParent(todo, body).due_date,
                                      spawnParent(todo, body).recurrence_pattern) = Thrown
              THEN Reject(500)
              ELSE /\ nextTodoId <= cap
                   /\ todos' = (IF updateThrows(body) THEN todos
                                 ELSE [todos EXCEPT ![id] = updatedRow(todo, body)])
                                  @@ (nextTodoId :> spawnRow(spawnParent(todo, body)))
                   /\ nextTodoId' = nextTodoId + 1
                   /\ todoTags' = spawnTags(nextTodoId, id)
                   /\ subtasks' = spawnSubtasks(nextTodoId, id)
                   /\ nextSubtaskId' = nextSubtaskId + Cardinality(findByTodo(id))
                   /\ fired' = [fired EXCEPT ![id] =
                                   IF ~updateThrows(body)
                                      /\ (Has(body, "due_date") \/ Has(body, "reminder_minutes"))
                                   THEN [@ EXCEPT !.count = 0] ELSE @]
                                  @@ (nextTodoId :> NoFire)
                   /\ resp' = IF updateThrows(body) THEN [status |-> 500]
                              ELSE [status |-> 200, todo |-> id, next_todo |-> nextTodoId]
                   /\ UNCHANGED <<poller, templates, inflight, tzShift, clock, ticks, tags, nextTagId>>
         ELSE IF updateThrows(body) THEN Reject(500)
         ELSE /\ todos' = [todos EXCEPT ![id] = updatedRow(todo, body)]
              /\ fired' = [fired EXCEPT ![id] =
                              IF Has(body, "due_date") \/ Has(body, "reminder_minutes")
                              THEN [@ EXCEPT !.count = 0] ELSE @]
              /\ resp' = [status |-> 200]
              /\ UNCHANGED <<poller, templates, inflight, tzShift, clock, ticks, nextTodoId, subtasks, nextSubtaskId,
                             tags, nextTagId, todoTags>>

(***************************************************************************)
(* PUT /api/todos/[id] as the event loop runs it: the handler reads the     *)
(* todo, then awaits request.json(); other requests run during the await.  *)
(* What follows the await (validation, createRecurringInstance,            *)
(* todoDB.update, the response) is synchronous and runs in one piece.      *)
(***************************************************************************)
\* up to the await: the todo is read and the ownership tested
PutRead(r, u, id) ==
    /\ r \notin DOMAIN inflight
    /\ IF id \notin DOMAIN todos THEN Reject(404)
       ELSE IF todos[id].user_id # u THEN Reject(403)
       ELSE /\ inflight' = inflight @@
                    (r :> [pc |-> "body", user |-> u, id |-> id, todo |-> todos[id],
                           overlaps |-> {x \in DOMAIN inflight : inflight[x].pc = "body"},
                           completed |-> NullInt, next_todo |-> 0])
            /\ resp' = NoResponse
            /\ UNCHANGED <<poller, templates, tzShift, clock, ticks, todos, nextTodoId, subtasks,
                           nextSubtaskId, tags, nextTagId, todoTags, fired>>

\* the request has answered: what it sent as completed and the todo it spawned
PutAnswered(r, body, next) ==
    [inflight EXCEPT ![r].pc = "done",
                     ![r].completed = IF Has(body, "completed") THEN body.completed
                                      ELSE NullInt,
                     ![r].next_todo = next]

\* the stored row as the UPDATE sees it: isCompleting comes from the todo read
\* before the await, every column that is not written from the row in the table
rowSeen(id, todo, body) ==
    IF Has(body, "completed") THEN [todos[id] EXCEPT !.completed = todo.completed]
    ELSE todos[id]

\* from the await to the response
PutWrite(r, body, cap) ==
    /\ r \in DOMAIN inflight /\ inflight[r].pc = "body"
    /\ LET id   == inflight[r].id
           todo == inflight[r].todo
           updates == id \in DOMAIN todos /\ ~updateThrows(body)
       IN  IF \/ (Has(body, "title") /\ Trim(body.title) = "")
              \/ (Has(body, "priority") /\ body.priority \notin Priorities)
              \/ (Has(body, "recurrence_pattern") /\ body.recurrence_pattern # NULL
                    /\ body.recurrence_pattern \notin RecurrencePatterns)
           THEN /\ resp' = [status |-> 400]
                /\ inflight' = PutAnswered(r, body, 0)
                /\ UNCHANGED <<poller, templates, tzShift, clock, ticks, todos, nextTodoId, subtasks,
                               nextSubtaskId, tags, nextTagId, todoTags, fired>>
           ELSE IF shouldSpawn(todo, body)
           THEN IF calculateNextDueDate(todo.due_date, todo.recurrence_pattern) = Thrown
                THEN /\ resp' = [status |-> 500]
                     /\ inflight' = PutAnswered(r, body, 0)
                     /\ UNCHANGED <<poller, templates, tzShift, clock, ticks, todos, nextTodoId,
                                    subtasks, nextSubtaskId, tags, nextTagId, todoTags, fired>>
                ELSE /\ nextTodoId <= cap
                     /\ todos' = (IF updates
                                   THEN [todos EXCEPT ![id] = updatedRow(rowSeen(id, todo, body), body)]
                                   ELSE todos)
                                    @@ (nextTodoId :> spawnRow(todo))
                     /\ nextTodoId' = nextTodoId + 1
                     /\ todoTags' = spawnTags(nextTodoId, id)
                     /\ subtasks' = spawnSubtasks(nextTodoId, id)
                     /\ nextSubtaskId' = nextSubtaskId + Cardinality(findByTodo(id))
                     /\ fired' = fired @@ (nextTodoId :> NoFire)
                     /\ resp' = IF updateThrows(body) THEN [status |-> 500]
                                ELSE [status |-> 200, todo |-> id, next_todo |-> nextTodoId]
                     /\ inflight' = PutAnswered(r, body, nextTodoId)
                     /\ UNCHANGED <<poller, templates, tzShift, clock, ticks, tags, nextTagId>>
           ELSE /\ todos' = IF updates
                            THEN [todos EXCEPT ![id] = updatedRow(rowSeen(id, todo, body), body)]
                            ELSE todos
                /\ resp' = IF updateThrows(body) THEN [status |-> 500] ELSE [status |-> 200]
                /\ inflight' = PutAnswered(r, body, 0)
                /\ UNCHANGED <<poller, templates, tzShift, clock, ticks, nextTodoId, subtasks,
                               nextSubtaskId, tags, nextTagId, todoTags, fired>>

(***************************************************************************)
(* DELETE /api/todos/[id]: ON DELETE CASCADE to subtasks and todo_tags     *)
(***************************************************************************)
\* a delete that removes the todo row alone
DeleteTodo_withoutCascade(u, id) ==
    IF id \notin DOMAIN todos THEN Reject(404)
    ELSE IF todos[id].user_id # u THEN Reject(403)
    ELSE /\ todos' = [t \in DOMAIN todos \ {id} |-> todos[t]]
         /\ fired' = [t \in DOMAIN fired \ {id} |-> fired[t]]
         /\ resp' = [status |-> 200]
         /\ UNCHANGED <<poller, templates, inflight, tzShift, clock, ticks, nextTodoId, subtasks, nextSubtaskId,
                        tags, nextTagId, todoTags>>
DeleteTodo(u, id) ==
    IF id \notin DOMAIN todos THEN Reject(404)
    ELSE IF todos[id].user_id # u THEN Reject(403)
    ELSE /\ todos' = [t \in DOMAIN todos \ {id} |-> todos[t]]
         /\ subtasks' = [s \in {x \in DOMAIN subtasks : subtasks[x].todo_id # id} |-> subtasks[s]]
         /\ todoTags' = {tt \in todoTags : tt[1] # id}
         /\ fired' = [t \in DOMAIN fired \ {id} |-> fired[t]]
         /\ resp' = [status |-> 200]
         /\ UNCHANGED <<poller, templates, inflight, tzShift, clock, ticks, nextTodoId, nextSubtaskId, tags, nextTagId>>

(***************************************************************************)
(* POST /api/tags and POST /api/todos/[id]/tags                            *)
(***************************************************************************)
CreateTag(u, name) ==
    /\ nextTagId <= MaxTags
    /\ IF ~Truthy(name) \/ Trim(name) = "" THEN Reject(400)
       ELSE IF \E t \in DOMAIN tags : tags[t].user_id = u /\ tags[t].name = Trim(name)
       THEN Reject(409)
       ELSE /\ tags' = tags @@ (nextTagId :> [user_id |-> u, name |-> Trim(name)])
            /\ nextTagId' = nextTagId + 1
            /\ resp' = [status |-> 201]
            /\ UNCHANGED <<poller, templates, inflight, tzShift, clock, ticks, todos, nextTodoId, subtasks,
                           nextSubtaskId, todoTags, fired>>

SetTodoTags(u, id, tag_ids) ==
    IF id \notin DOMAIN todos \/ (id \in DOMAIN todos /\ todos[id].user_id # u)
    THEN Reject(404)
    ELSE IF \E tg \in tag_ids : tg \notin DOMAIN tags \/ (tg \in DOMAIN tags /\ tags[tg].user_id # u)
    THEN Reject(404)
    ELSE /\ todoTags' = {tt \in todoTags : tt[1] # id} \cup {<<id, tg>> : tg \in tag_ids}
         /\ resp' = [status |-> 200]
         /\ UNCHANGED <<poller, templates, inflight, tzShift, clock, ticks, todos, nextTodoId, subtasks, nextSubtaskId,
                        tags, nextTagId, fired>>

(***************************************************************************)
(* POST /api/subtasks and PUT /api/subtasks/[id]                           *)
(***************************************************************************)
CreateSubtask(u, todo_id, title) ==
    /\ nextSubtaskId <= MaxSubtasks
    /\ IF ~Truthy(title) \/ Trim(title) = "" THEN Reject(400)
       ELSE IF todo_id \notin DOMAIN todos
               \/ (todo_id \in DOMAIN todos /\ todos[todo_id].user_id # u)
       THEN Reject(404)
       ELSE /\ subtasks' = subtasks @@ (nextSubtaskId :> subtaskDB_create(
                              [todo_id |-> todo_id, title |-> Trim(title),
                               position |-> Cardinality(findByTodo(todo_id))]))
            /\ nextSubtaskId' = nextSubtaskId + 1
            /\ resp' = [status |-> 201]
            /\ UNCHANGED <<poller, templates, inflight, tzShift, clock, ticks, todos, nextTodoId, tags, nextTagId,
                           todoTags, fired>>

\* subtaskDB.update(id, body): every field of the body is written as sent
PutSubtask(u, id, body) ==
    IF id \notin DOMAIN subtasks THEN Reject(404)
    ELSE IF subtasks[id].todo_id \notin DOMAIN todos
            \/ (subtasks[id].todo_id \in DOMAIN todos
                  /\ todos[subtasks[id].todo_id].user_id # u)
    THEN Reject(403)
    ELSE IF \/ (Has(body, "title") /\ Trim(body.title) = "")
            \/ (Has(body, "completed") /\ body.completed \notin {0, 1})
    THEN Reject(400)
    \* FOREIGN KEY (todo_id) REFERENCES todos(id): the UPDATE throws
    ELSE IF Has(body, "todo_id") /\ body.todo_id \notin DOMAIN todos THEN Reject(500)
    ELSE /\ subtasks' = [subtasks EXCEPT ![id] =
                [todo_id   |-> IF Has(body, "todo_id") THEN body.todo_id ELSE @.todo_id,
                 title     |-> IF Has(body, "title") THEN body.title ELSE @.title,
                 completed |-> IF Has(body, "completed") THEN body.completed ELSE @.completed,
                 position  |-> IF Has(body, "position") THEN body.position ELSE @.position]]
         /\ resp' = [status |-> 200]
         /\ UNCHANGED <<poller, templates, inflight, tzShift, clock, ticks, todos, nextTodoId, nextSubtaskId,
                        tags, nextTagId, todoTags, fired>>

(***************************************************************************)
(* POST /api/subtasks/reorder and DELETE /api/subtasks/[id]                *)
(***************************************************************************)
\* a reorder that exchanges the positions of the subtask and of the one at
\* the new position
reorderedPosition_swapped(s, subtask_id, oldPosition, new_position) ==
    IF s = subtask_id THEN new_position
    ELSE IF subtasks[s].position = new_position THEN oldPosition
    ELSE subtasks[s].position
\* the position of subtask s of the todo after the reorder loop
reorderedPosition(s, subtask_id, oldPosition, new_position) ==
    IF s = subtask_id THEN new_position
    ELSE IF oldPosition < new_position
    THEN IF subtasks[s].position > oldPosition /\ subtasks[s].position <= new_position
         THEN subtasks[s].position - 1 ELSE subtasks[s].position
    ELSE IF subtasks[s].position >= new_position /\ subtasks[s].position < oldPosition
         THEN subtasks[s].position + 1 ELSE subtasks[s].position

\* the answer to a reorder request that reached the position test
ReorderResponse(status, subtask_id, new_position) ==
    [status |-> status, subtask_id |-> subtask_id, new_position |-> new_position]

ReorderSubtask(u, subtask_id, new_position) ==
    IF subtask_id \notin DOMAIN subtasks THEN Reject(404)
    ELSE IF subtasks[subtask_id].todo_id \notin DOMAIN todos
            \/ (subtasks[subtask_id].todo_id \in DOMAIN todos
                  /\ todos[subtasks[subtask_id].todo_id].user_id # u)
    THEN Reject(403)
    ELSE LET allSubtasks == findByTodo(subtasks[subtask_id].todo_id)
             oldPosition == subtasks[subtask_id].position
         IN  /\ IF new_position < 0 \/ new_position >= Cardinality(allSubtasks)
                THEN /\ resp' = ReorderResponse(400, subtask_id, new_position)
                     /\ UNCHANGED subtasks
                ELSE /\ resp' = ReorderResponse(200, subtask_id, new_position)
                     /\ subtasks' =
                          IF oldPosition = new_position THEN subtasks
                          ELSE [s \in DOMAIN subtasks |->
                                  IF s \in allSubtasks
                                  THEN [subtasks[s] EXCEPT !.position =
                                          reorderedPosition(s, subtask_id, oldPosition,
                                                            new_position)]
                                  ELSE subtasks[s]]
             /\ UNCHANGED <<poller, templates, inflight, tzShift, clock, ticks, todos, nextTodoId,
                            nextSubtaskId, tags, nextTagId, todoTags, fired>>

\* the subtask is deleted and the remaining ones of its todo are renumbered
\* by their index in the order of findByTodo
DeleteSubtask(u, id) ==
    IF id \notin DOMAIN subtasks THEN Reject(404)
    ELSE IF subtasks[id].todo_id \notin DOMAIN todos
            \/ (subtasks[id].todo_id \in DOMAIN todos
                  /\ todos[subtasks[id].todo_id].user_id # u)
    THEN Reject(403)
    ELSE LET remaining == findByTodo(subtasks[id].todo_id) \ {id}
         IN  /\ subtasks' = [s \in DOMAIN subtasks \ {id} |->
                    IF s \in remaining
                    THEN [subtasks[s] EXCEPT !.position =
                            Cardinality({x \in remaining : SubtaskBefore(x, s)})]
                    ELSE subtasks[s]]
             /\ resp' = [status |-> 200]
             /\ UNCHANGED <<poller, templates, inflight, tzShift, clock, ticks, todos, nextTodoId,
                            nextSubtaskId, tags, nextTagId, todoTags, fired>>

(***************************************************************************)
(* POST /api/todos/import with one todo, no tags and no templates          *)
(***************************************************************************)
\* new Date().toISOString(), to the second
isoNow == FormatLocal(clock)

\* the subtask rows of the imported todo: created in the order of the file, and
\* after each one UPDATE subtasks SET completed = 1 WHERE todo_id = ? AND title = ?
importedSubtasks(newId, list) ==
    [k \in nextSubtaskId .. (nextSubtaskId + Len(list) - 1) |->
        LET i   == k - nextSubtaskId + 1
            row == subtaskDB_create([todo_id |-> newId, title |-> list[i].title,
                                     position |-> list[i].position])
        IN  [row EXCEPT !.completed =
                IF \E j \in i .. Len(list) :
                      TruthyNum(list[j].completed) /\ list[j].title = row.title
                THEN 1 ELSE 0]]

ImportTodos(u, item, cap) ==
    /\ nextTodoId <= cap
    /\ IF ~Truthy(item.title) \/ item.priority \notin Priorities THEN Reject(400)
       ELSE /\ todos' = todos @@ (nextTodoId :>
                   LET row == todoDB_create([user_id |-> u, title |-> item.title,
                                  due_date |-> item.due_date, priority |-> item.priority,
                                  recurrence_pattern |-> item.recurrence_pattern,
                                  reminder_minutes |-> item.reminder_minutes])
                   IN  IF TruthyNum(item.completed)
                       THEN [row EXCEPT !.completed = 1,
                                        !.completed_at = IF item.completed_at # NullStamp
                                                         THEN item.completed_at ELSE isoNow]
                       ELSE row)
            /\ nextTodoId' = nextTodoId + 1
            /\ subtasks' = subtasks @@ importedSubtasks(nextTodoId, item.subtasks)
            /\ nextSubtaskId' = nextSubtaskId + Len(item.subtasks)
            /\ fired' = fired @@ (nextTodoId :> NoFire)
            /\ resp' = [status |-> 200]
            /\ UNCHANGED <<poller, templates, inflight, tzShift, clock, ticks, tags, nextTagId, todoTags>>

(***************************************************************************)
(* POST /api/templates and POST /api/templates/[id]/use                    *)
(***************************************************************************)
\* JSON.stringify(subtasks.map(s => ({title, position}))) of a todo's subtasks
subtasksJson(todoId) ==
    [i \in 1 .. Cardinality(findByTodo(todoId)) |->
        LET s == CHOOSE x \in findByTodo(todoId) : SubtaskRank(x) = i - 1
        IN  [title |-> subtasks[s].title, position |-> subtasks[s].position]]

CreateTemplate(u, name, todo_id, due_offset_days) ==
    /\ Len(templates) < MaxTemplates
    /\ IF ~Truthy(name) \/ Trim(name) = "" THEN Reject(400)
       ELSE IF todo_id \notin DOMAIN todos
               \/ (todo_id \in DOMAIN todos /\ todos[todo_id].user_id # u)
       THEN Reject(404)
       ELSE /\ templates' = Append(templates,
                    [user_id |-> u, name |-> Trim(name),
                     title |-> Trim(todos[todo_id].title),
                     priority |-> IF Truthy(todos[todo_id].priority)
                                  THEN todos[todo_id].priority ELSE "medium",
                     due_offset_days |-> due_offset_days,
                     subtasks_json |-> subtasksJson(todo_id)])
            /\ resp' = [status |-> 201]
            /\ UNCHANGED <<poller, inflight, tzShift, clock, ticks, todos, nextTodoId, subtasks,
                           nextSubtaskId, tags, nextTagId, todoTags, fired>>

\* the due date given to the new todo
templateDueDate(template, body) ==
    IF body.due_date_override # NullStamp
    THEN body.due_date_override
    ELSE formatSingaporeDate(addDays(getSingaporeNow, template.due_offset_days))

UseTemplate(u, id, body, cap) ==
    /\ nextTodoId <= cap
    /\ IF id \notin DOMAIN templates \/ (id \in DOMAIN templates /\ templates[id].user_id # u)
       THEN Reject(404)
       ELSE LET template == templates[id]
                list     == template.subtasks_json
            IN  /\ todos' = todos @@ (nextTodoId :> todoDB_create(
                                [user_id |-> u, title |-> template.title,
                                 due_date |-> templateDueDate(template, body),
                                 priority |-> template.priority,
                                 recurrence_pattern |-> NULL,
                                 reminder_minutes |-> NullInt]))
                /\ nextTodoId' = nextTodoId + 1
                /\ subtasks' = subtasks @@
                       [k \in nextSubtaskId .. (nextSubtaskId + Len(list) - 1) |->
                           subtaskDB_create([todo_id |-> nextTodoId,
                                             title |-> list[k - nextSubtaskId + 1].title,
                                             position |-> list[k - nextSubtaskId + 1].position])]
                /\ nextSubtaskId' = nextSubtaskId + Len(list)
                /\ fired' = fired @@ (nextTodoId :> NoFire)
                /\ resp' = [status |-> 201]
                /\ UNCHANGED <<poller, templates, inflight, tzShift, clock, ticks, tags, nextTagId, todoTags>>

(***************************************************************************)
(* Request bodies of the model                                             *)
(***************************************************************************)
NewTodo(title, due, priority, pattern, minutes) ==
    [title |-> title, due_date |-> due, priority |-> priority,
     recurrence_pattern |-> pattern, reminder_minutes |-> minutes]

\* at 12:00 the first is inside its window, which ends at 12:01; the window of
\* the second opens at 12:01; the third is inside its window all along
ReminderCreateBodies ==
    { NewTodo("a", DueAt(12, 1), NULL, NULL, 15),
      NewTodo("a", DueAt(12, 16), NULL, NULL, 15),
      NewTodo("b", DueAt(13, 30), "high", NULL, 1440) }

ReminderPutBodies ==
    { [completed |-> 1], [completed |-> 0], [reminder_minutes |-> 0] }

StoreCreateBodies ==
    { NewTodo("a", DueAt(17, 0), "high", "monthly", 60),
      NewTodo("b", DueAt(17, 0), NULL, NULL, NullInt),
      NewTodo("  ", DueAt(17, 0), NULL, "daily", NullInt) }

StorePutBodies ==
    { [completed |-> 1], [completed |-> 0],
      [completed |-> 1, recurrence_pattern |-> "daily"],
      [recurrence_pattern |-> NULL],
      [reminder_minutes |-> 0] }

SpawnCreateBodies == { NewTodo("a", DueAt(17, 0), "high", "weekly", 60) }

SpawnPutBodies == { [completed |-> 1], [completed |-> 0] }

\* an export file edited by hand: one active todo with an unknown pattern
ImportItem(title, pattern, completed, list) ==
    [title |-> title, priority |-> "low", due_date |-> DueAt(17, 0),
     recurrence_pattern |-> pattern, reminder_minutes |-> NullInt,
     completed |-> completed, completed_at |-> NullStamp, subtasks |-> list]

ChainImportItems == { ImportItem("c", "hourly", 0, <<>>) }

\* the third carries "due_date": null
ChainPutBodies ==
    { [completed |-> 1], [completed |-> 0], [completed |-> 1, due_date |-> NullStamp] }

\* an exported todo that was completed, without its completed_at
FlagImportItems == { ImportItem("c", "daily", 1, <<>>) }

\* the third carries "completed": 2
FlagPutBodies == { [completed |-> 1], [completed |-> 0], [completed |-> 2] }

\* the session whose poller runs
PollUsers == {1}

\* clock advances while the poller runs: half an interval, one interval
PollTickSteps == {30 * MsPerSecond, PollInterval}

\* due 12:01 with the window open since 11:46; due 12:02 with the window
\* opening at 12:01
PollCreateBodies ==
    { NewTodo("a", DueAt(12, 1), NULL, NULL, 15),
      NewTodo("a", DueAt(12, 2), NULL, NULL, 1) }

ConcurrentPutBodies == { [completed |-> 1], [completed |-> 0] }

SubtaskTitles == {"a", "  "}

\* an export file with one todo that has three subtasks
ReorderImportItems ==
    { ImportItem("c", NULL, 0,
                 <<[title |-> "a", position |-> 0, completed |-> 0],
                   [title |-> "b", position |-> 1, completed |-> 0],
                   [title |-> "c", position |-> 2, completed |-> 1]>>) }

\* the positions of the model: one below and one above the range of a todo
\* with three subtasks
ReorderPositions == (-1) .. 3

SubtaskPutBodies == { [completed |-> 1], [title |-> " a", position |-> 1] }

TagNames == {"a"}

\* inside its reminder window from the start
IsolationCreateBodies == { NewTodo("b", DueAt(13, 30), "high", NULL, 1440) }

\* the second and third carry "todo_id"
IsolationSubtaskBodies == { [completed |-> 1], [todo_id |-> 1], [todo_id |-> 2] }

\* due at 12:30 with a lead time of 7 minutes; at 11:00, an hour before the
\* start; at 03:00, nine hours before
CreateBodies ==
    { NewTodo("a", DueAt(12, 30), NULL, NULL, 7),
      NewTodo("a", DueAt(11, 0), NULL, NULL, NullInt),
      NewTodo("a", DueAt(3, 0), NULL, NULL, NullInt) }

TemplateOffsets == {0, 1}

\* without an override, and with the override 03:00
UseTemplateBodies ==
    { [due_date_override |-> NullStamp], [due_date_override |-> DueAt(3, 0)] }

(***************************************************************************)
(* Specifications                                                          *)
(***************************************************************************)
\* the reminder engine: the clock, the reminder check and the requests that
\* change what the check reads
NextReminder ==
    \/ \E step \in TickSteps : Tick(step)
    \/ \E u \in Users, body \in ReminderCreateBodies : CreateTodo(u, body, MaxTodos)
    \/ \E u \in Users, id \in 1..MaxTodos, body \in ReminderPutBodies :
          PutTodo(u, id, body, MaxTodos)
    \/ \E u \in Users : CheckNotifications(u)

SpecReminder == Init /\ [][NextReminder]_vars

\* recurrence advancement with tags and subtasks
NextSpawn ==
    \/ \E u \in Users, body \in SpawnCreateBodies : CreateTodo(u, body, MaxStoreTodos)
    \/ \E u \in Users, id \in 1..MaxStoreTodos, body \in SpawnPutBodies :
          PutTodo(u, id, body, MaxStoreTodos)
    \/ \E u \in Users, name \in TagNames : CreateTag(u, name)
    \/ \E u \in Users, id \in 1..MaxStoreTodos, tag_ids \in SUBSET (1..MaxTags) :
          SetTodoTags(u, id, tag_ids)
    \/ \E u \in Users, id \in 1..MaxStoreTodos, title \in SubtaskTitles :
          CreateSubtask(u, id, title)
    \/ \E u \in Users, id \in 1..MaxSubtasks, body \in SubtaskPutBodies :
          PutSubtask(u, id, body)

SpecSpawn == InitStore /\ [][NextSpawn]_vars

\* the recurrence calculator called on its own
RecurrenceDays ==
    { <<2026, 1, 31>>, <<2026, 2, 28>>, <<2026, 2, 10>>, <<2024, 2, 29>>,
      <<2026, 12, 31>>, <<2026, 3, 31>> }

\* 00:00:00, 07:59:59, 17:00:00, 23:59:59
RecurrenceTimes == {0, (7 * 60 + 59) * 60 + 59, 17 * 60 * 60, (23 * 60 + 59) * 60 + 59}

RecurrenceDates ==
    {[day |-> DaysFromCivil(c[1], c[2], c[3]), sec |-> t] :
        c \in RecurrenceDays, t \in RecurrenceTimes}

CallNextDueDate(due, pattern) ==
    /\ resp' = [status |-> 0, due |-> due, pattern |-> pattern,
                next |-> calculateNextDueDate(due, pattern)]
    /\ UNCHANGED <<poller, templates, inflight, tzShift, clock, ticks, todos, nextTodoId, subtasks, nextSubtaskId,
                   tags, nextTagId, todoTags, fired>>

CallNextOccurrences(startDate, pattern, count) ==
    /\ resp' = [status |-> 0, start |-> startDate, pattern |-> pattern, count |-> count,
                occurrences |-> calculateNextOccurrences(startDate, pattern, count)]
    /\ UNCHANGED <<poller, templates, inflight, tzShift, clock, ticks, todos, nextTodoId, subtasks, nextSubtaskId,
                   tags, nextTagId, todoTags, fired>>

NextRecurrence ==
    \/ \E due \in RecurrenceDates, pattern \in RecurrencePatterns \cup {"hourly", NULL} :
          CallNextDueDate(due, pattern)
    \/ \E start \in RecurrenceDates, pattern \in RecurrencePatterns, count \in 0..MaxCount :
          CallNextOccurrences(start, pattern, count)

SpecRecurrence == Init /\ [][NextRecurrence]_vars

\* chains of completions: one created todo, completed, re-opened and completed
\* again, together with the successors these completions spawn
NextChain ==
    \/ \E u \in Users, body \in SpawnCreateBodies : CreateTodo(u, body, MaxChainCreated)
    \/ \E u \in Users, item \in ChainImportItems : ImportTodos(u, item, MaxChainCreated)
    \/ \E u \in Users, id \in 1..MaxChainTodos, body \in ChainPutBodies :
          PutTodo(u, id, body, MaxChainTodos)
    \/ \E u \in Users, name \in TagNames : CreateTag(u, name)
    \/ \E u \in Users, id \in 1..MaxChainTodos, tag_ids \in SUBSET (1..MaxTags) :
          SetTodoTags(u, id, tag_ids)
    \/ \E u \in Users, id \in 1..MaxChainTodos : CreateSubtask(u, id, "a")
    \/ \E u \in Users, id \in 1..MaxChainTodos : DeleteTodo(u, id)

SpecChain == InitStore /\ [][NextChain]_vars

\* creation of todos: by request and from a template
NextCreate ==
    \/ \E step \in TickSteps : Tick(step)
    \/ \E u \in Users, body \in CreateBodies : CreateTodo(u, body, MaxCreateTodos)
    \/ \E u \in Users, id \in 1..MaxCreateTodos : CreateSubtask(u, id, "a")
    \/ \E u \in Users, id \in 1..MaxCreateTodos, d \in TemplateOffsets :
          CreateTemplate(u, "a", id, d)
    \/ \E u \in Users, id \in 1..MaxTemplates, body \in UseTemplateBodies :
          UseTemplate(u, id, body, MaxCreateTodos)

SpecCreate == Init /\ [][NextCreate]_vars

\* the completed flag and completed_at of created and imported todos
NextFlag ==
    \/ \E step \in TickSteps : Tick(step)
    \/ \E u \in Users, body \in SpawnCreateBodies : CreateTodo(u, body, MaxChainCreated)
    \/ \E u \in Users, item \in FlagImportItems : ImportTodos(u, item, MaxChainCreated)
    \/ \E u \in Users, id \in 1..MaxChainTodos, body \in FlagPutBodies :
          PutTodo(u, id, body, MaxChainTodos)

SpecFlag == InitStore /\ [][NextFlag]_vars

\* two users working on their own data and addressing each other's
NextIsolation ==
    \/ \E u \in Users, body \in IsolationCreateBodies : CreateTodo(u, body, MaxIsolationTodos)
    \/ \E u \in Users, id \in 1..MaxIsolationTodos : DeleteTodo(u, id)
    \/ \E u \in Users, name \in TagNames : CreateTag(u, name)
    \/ \E u \in Users, id \in 1..MaxIsolationTodos, tag_ids \in SUBSET (1..MaxTags) :
          SetTodoTags(u, id, tag_ids)
    \/ \E u \in Users, id \in 1..MaxIsolationTodos : CreateSubtask(u, id, "a")
    \/ \E u \in Users, id \in 1..MaxSubtasks, body \in IsolationSubtaskBodies :
          PutSubtask(u, id, body)
    \/ \E u \in Users : CheckNotifications(u)

SpecIsolation == InitStore /\ [][NextIsolation]_vars

\* the readers: the reminder check and the recurrence calculator, over a
\* store with todos, subtasks, tags and tag associations
NextFrame ==
    \/ \E step \in TickSteps : Tick(step)
    \/ \E u \in Users, body \in IsolationCreateBodies : CreateTodo(u, body, MaxTodos)
    \/ \E u \in Users, id \in 1..MaxTodos : CreateSubtask(u, id, "a")
    \/ \E u \in Users, name \in TagNames : CreateTag(u, name)
    \/ \E u \in Users, id \in 1..MaxTodos : SetTodoTags(u, id, 1..MaxTags)
    \/ \E u \in Users : CheckNotifications(u)
    \/ \E id \in DOMAIN todos : CallNextDueDate(todos[id].due_date, "monthly")
    \/ \E id \in DOMAIN todos : CallNextOccurrences(todos[id].due_date, "daily", MaxCount)

SpecFrame == InitStore /\ [][NextFrame]_vars

\* the order of the subtasks of imported todos
NextReorder ==
    \/ \E u \in Users, item \in ReorderImportItems : ImportTodos(u, item, MaxTodos)
    \/ \E u \in Users, id \in 1..(3 * MaxTodos), p \in ReorderPositions :
          ReorderSubtask(u, id, p)
    \/ \E u \in Users, id \in 1..(3 * MaxTodos) : DeleteSubtask(u, id)

SpecReorder == InitStore /\ [][NextReorder]_vars

\* update requests that overlap in time
NextConcurrent ==
    \/ \E u \in Users, body \in SpawnCreateBodies : CreateTodo(u, body, MaxChainCreated)
    \/ \E r \in 1..MaxRequests, u \in Users, id \in 1..MaxChainTodos : PutRead(r, u, id)
    \/ \E r \in 1..MaxRequests, body \in ConcurrentPutBodies :
          PutWrite(r, body, MaxChainTodos)

SpecConcurrent == InitStore /\ [][NextConcurrent]_vars

\* a session whose poller runs: the interval timer fires as long as the page
\* is open, and the clock advances
NextPoll ==
    \/ \E step \in PollTickSteps : Tick(step)
    \/ \E u \in PollUsers, body \in PollCreateBodies : CreateTodo(u, body, MaxTodos)
    \/ \E u \in PollUsers, id \in 1..MaxTodos : PutTodo(u, id, [completed |-> 1], MaxTodos)
    \/ \E u \in PollUsers : CheckNotifications(u)

SpecPoll ==
    /\ InitPoll /\ [][NextPoll]_vars
    /\ WF_vars(\E u \in PollUsers : CheckNotifications(u))
    /\ WF_vars(\E step \in PollTickSteps : Tick(step))

\* todos: creation, update, completion, deletion
Next ==
    \/ \E u \in Users, body \in StoreCreateBodies : CreateTodo(u, body, MaxStoreTodos)
    \/ \E u \in Users, id \in 1..MaxStoreTodos, body \in StorePutBodies :
          PutTodo(u, id, body, MaxStoreTodos)
    \/ \E u \in Users, id \in 1..MaxStoreTodos : DeleteTodo(u, id)

Spec == InitStore /\ [][Next]_vars

(***************************************************************************)
(* Observations of a reminder check                                        *)
(***************************************************************************)
\* the response of a reminder check is the last response
CheckDone == Has(resp, "reminders")

\* the check that just answered returned this todo
Returned(id) == \E r \in resp.reminders : r.id = id

\* last_notification_sent of the todo as the check that just answered read it
PriorNotification(id) ==
    IF Returned(id)
    THEN (CHOOSE r \in resp.reminders : r.id = id).last_notification_sent
    ELSE todos[id].last_notification_sent

\* now lies in [due_date - reminder_minutes, due_date)
InWindow(todo, now) ==
    /\ DateGE(now, AddMs(ParseLocal(todo.due_date), -(todo.reminder_minutes * MsPerMinute)))
    /\ DateLT(now, ParseLocal(todo.due_date))

\* this step is a reminder check that returns the todo
ReturnedInStep(id) ==
    /\ id \in DOMAIN fired /\ id \in DOMAIN fired'
    /\ Has(resp', "reminders")
    /\ \E r \in resp'.reminders : r.id = id

C2_NoTwoChecksWithinFiveMinutes ==
    [][\A id \in DOMAIN fired :
          (ReturnedInStep(id) /\ fired[id].last # InvalidDate)
             => DiffMs(fired'[id].last, fired[id].last) >= 5 * MsPerMinute]_vars

\* C3: a todo returned by a check at t is excluded from every check at t' with
\* t <= t' < t + 5 minutes, is returned again by a check at t' >= t + 5 minutes
\* at which it is incomplete and inside its window, and a todo without
\* last_notification_sent is never excluded by the de-duplication step.
C3_DedupWindow ==
    [][Has(resp', "reminders") =>
          \A id \in DOMAIN todos :
             LET todo == todos[id]
                 now  == getSingaporeNow
                 t    == fired[id].last
                 ret  == \E r \in resp'.reminders : r.id = id
                 due  == todo.completed = 0 /\ todo.reminder_minutes # NullInt
                            /\ InWindow(todo, now)
             IN  todo.user_id = resp'.user =>
                   /\ (t # InvalidDate /\ DateGE(now, t) /\ DiffMs(now, t) < 5 * MsPerMinute)
                         => ~ret
                   /\ (t # InvalidDate /\ DiffMs(now, t) >= 5 * MsPerMinute /\ due) => ret
                   /\ (todo.last_notification_sent = NullStamp /\ due) => ret]_vars

\* C4: for an incomplete todo with reminder_minutes = m and no prior
\* notification, a reminder check at now returns the todo if and only if
\* due_date - m <= now < due_date.
C4_ReturnedIffInWindow ==
    CheckDone =>
        \A id \in DOMAIN todos :
            (/\ todos[id].user_id = resp.user
             /\ todos[id].completed = 0
             /\ todos[id].reminder_minutes # NullInt
             /\ PriorNotification(id) = NullStamp)
               => (Returned(id) <=> InWindow(todos[id], getSingaporeNow))

\* a check at now = due_date - m returned a todo that had no prior notification
C4_Witness ==
    /\ CheckDone
    /\ \E r \in resp.reminders :
          /\ r.last_notification_sent = NullStamp
          /\ DiffMs(ParseLocal(todos[r.id].due_date), getSingaporeNow)
                = todos[r.id].reminder_minutes * MsPerMinute

\* C5: a todo whose completed flag is set is never returned by the reminder
\* check, whatever its due date, reminder_minutes and last_notification_sent.
C5_CompletedNeverReturned ==
    CheckDone => \A r \in resp.reminders : todos[r.id].completed = 0

\* a check left out a completed todo of its user that is inside its window
\* and has no prior notification
C5_Witness ==
    /\ CheckDone
    /\ \E id \in DOMAIN todos :
          /\ todos[id].user_id = resp.user
          /\ todos[id].completed = 1
          /\ todos[id].reminder_minutes # NullInt
          /\ todos[id].last_notification_sent = NullStamp
          /\ InWindow(todos[id], getSingaporeNow)
          /\ ~Returned(id)

(***************************************************************************)
(* Observations of a completion                                            *)
(***************************************************************************)
\* this step marks the active todo complete
Completes(id) ==
    /\ id \in DOMAIN todos /\ todos[id].completed = 0
    /\ id \in DOMAIN todos' /\ todos'[id].completed = 1

\* the ids of the todos this step creates
NewTodos == DOMAIN todos' \ DOMAIN todos

\* todoDB.getTags: the tags associated with a todo in a todo_tags table
TagsIn(table, id) == {tt[2] : tt \in {x \in table : x[1] = id}}

\* the ids of the subtasks of a todo in a subtasks table
SubtasksIn(table, id) == {s \in DOMAIN table : table[s].todo_id = id}

(***************************************************************************)
(* Recurrence advancement: claims                                          *)
(***************************************************************************)
\* C6: marking an active todo with a non-null recurrence pattern complete
\* creates exactly one new todo with the owner, title, priority, pattern and
\* reminder_minutes of the completed one, due_date = the next due date,
\* completed = 0, completed_at = null and last_notification_sent = null.
C6_SpawnsOneSuccessor ==
    [][\A id \in DOMAIN todos :
          (Completes(id) /\ todos[id].recurrence_pattern # NULL) =>
             \E n \in NewTodos :
                /\ NewTodos = {n}
                /\ todos'[n].user_id = todos[id].user_id
                /\ todos'[n].title = todos[id].title
                /\ todos'[n].priority = todos[id].priority
                /\ todos'[n].recurrence_pattern = todos[id].recurrence_pattern
                /\ todos'[n].reminder_minutes = todos[id].reminder_minutes
                /\ todos'[n].due_date = calculateNextDueDate(todos[id].due_date,
                                            todos[id].recurrence_pattern)
                /\ todos'[n].completed = 0
                /\ todos'[n].completed_at = NullStamp
                /\ todos'[n].last_notification_sent = NullStamp]_vars

\* C7: when a recurring todo is completed, the tags of the spawned todo are
\* the tags the completed todo had at that moment, and the completed todo
\* keeps all of them.
C7_TagsCopiedNotMoved ==
    [][\A id \in DOMAIN todos :
          (Completes(id) /\ todos[id].recurrence_pattern # NULL) =>
             /\ NewTodos # {}
             /\ \A n \in NewTodos : TagsIn(todoTags', n) = TagsIn(todoTags, id)
             /\ TagsIn(todoTags', id) = TagsIn(todoTags, id)]_vars

\* a completion spawned a todo that has the tag of the completed todo, which kept it
C7_Witness ==
    /\ Has(resp, "next_todo")
    /\ TagsIn(todoTags, resp.todo) # {}
    /\ TagsIn(todoTags, resp.next_todo) = TagsIn(todoTags, resp.todo)

\* C8: when a recurring todo is completed, the spawned todo has exactly one
\* subtask for each subtask of the completed todo, with the same title and
\* position, and every subtask of the spawned todo has completed = 0.
C8_SubtasksCopiedFresh ==
    [][\A id \in DOMAIN todos :
          (Completes(id) /\ todos[id].recurrence_pattern # NULL) =>
             /\ NewTodos # {}
             /\ \A n \in NewTodos :
                  LET old == SubtasksIn(subtasks, id)
                      new == SubtasksIn(subtasks', n)
                  IN  /\ Cardinality(new) = Cardinality(old)
                      /\ \A s \in old :
                           Cardinality({x \in old :
                               /\ subtasks[x].title = subtasks[s].title
                               /\ subtasks[x].position = subtasks[s].position})
                           = Cardinality({x \in new :
                               /\ subtasks'[x].title = subtasks[s].title
                               /\ subtasks'[x].position = subtasks[s].position})
                      /\ \A x \in new : subtasks'[x].completed = 0]_vars

\* C9: completing a recurring todo changes nothing of the completed todo but
\* completed and completed_at; its tags and its subtasks with their titles,
\* positions and completion states are the same after the spawn as before.
C9_CompletedTodoLeftAsIs ==
    [][\A id \in DOMAIN todos :
          (Completes(id) /\ todos[id].recurrence_pattern # NULL) =>
             /\ todos'[id] = [todos[id] EXCEPT !.completed = 1,
                                               !.completed_at = todos'[id].completed_at]
             /\ TagsIn(todoTags', id) = TagsIn(todoTags, id)
             /\ SubtasksIn(subtasks', id) = SubtasksIn(subtasks, id)
             /\ \A s \in SubtasksIn(subtasks, id) : subtasks'[s] = subtasks[s]]_vars

\* a completion spawned a successor and the completed todo still has its
\* reminder lead time, its tag and a subtask that is marked done
C9_Witness ==
    /\ Has(resp, "next_todo")
    /\ todos[resp.todo].completed = 1
    /\ todos[resp.todo].reminder_minutes = 60
    /\ TagsIn(todoTags, resp.todo) # {}
    /\ \E s \in SubtasksIn(subtasks, resp.todo) : subtasks[s].completed = 1

\* C10: marking complete a todo whose recurrence pattern is null creates no
\* todo: the set of todo ids is the same before and after the request.
C10_NoSpawnWithoutPattern ==
    [][\A id \in DOMAIN todos :
          (Completes(id) /\ todos[id].recurrence_pattern = NULL) =>
             DOMAIN todos' = DOMAIN todos]_vars

\* a todo created as recurring whose pattern was removed has been completed
\* by the last request, and no todo was created after it
C10_Witness ==
    /\ resp.status = 200 /\ ~Has(resp, "next_todo")
    /\ \E id \in DOMAIN todos :
          /\ todos[id].title = "a"
          /\ todos[id].recurrence_pattern = NULL
          /\ todos[id].completed = 1
          /\ todos[id].completed_at = formatSingaporeDate(getSingaporeNow)
          /\ nextTodoId = id + 1

\* this step re-opens the completed todo
Uncompletes(id) ==
    /\ id \in DOMAIN todos /\ todos[id].completed = 1
    /\ id \in DOMAIN todos' /\ todos'[id].completed = 0

\* C11: a request that sets completed = 0 on a completed todo creates no todo
\* and deletes no todo; every other todo, a successor spawned earlier
\* included, is unchanged with its tags and its subtasks.
C11_UncompleteKeepsSuccessors ==
    [][\A id \in DOMAIN todos :
          Uncompletes(id) =>
             /\ DOMAIN todos' = DOMAIN todos
             /\ \A n \in DOMAIN todos \ {id} :
                  /\ todos'[n] = todos[n]
                  /\ TagsIn(todoTags', n) = TagsIn(todoTags, n)
                  /\ SubtasksIn(subtasks', n) = SubtasksIn(subtasks, n)
                  /\ \A s \in SubtasksIn(subtasks, n) : subtasks'[s] = subtasks[s]]_vars

\* a todo has been re-opened and the successor of its completion is there
\* with a tag and a subtask
C11_Witness ==
    /\ resp.status = 200 /\ ~Has(resp, "next_todo")
    /\ \E id \in DOMAIN todos, n \in DOMAIN todos :
          /\ n > id
          /\ todos[id].completed = 0 /\ todos[id].completed_at = NullStamp
          /\ todos[n].due_date = calculateNextDueDate(todos[id].due_date,
                                      todos[id].recurrence_pattern)
          /\ TagsIn(todoTags, n) # {}
          /\ SubtasksIn(subtasks, n) # {}

\* C12: a completion request on a recurring todo is all-or-nothing: a request
\* that ends in an error leaves no todo, no tag association and no subtask
\* behind, and a request that completes the todo leaves a successor with
\* every tag and every subtask of the parent.
C12_CompletionAllOrNothing ==
    [][/\ resp'.status >= 400 =>
            /\ todos' = todos /\ todoTags' = todoTags /\ subtasks' = subtasks
       /\ \A id \in DOMAIN todos :
            (Completes(id) /\ todos[id].recurrence_pattern # NULL) =>
               \E n \in NewTodos :
                  /\ TagsIn(todoTags', n) = TagsIn(todoTags, id)
                  /\ Cardinality(SubtasksIn(subtasks', n))
                        = Cardinality(SubtasksIn(subtasks, id))]_vars

\* the stored pattern is neither null nor one of the four patterns
InvalidPattern(todo) ==
    todo.recurrence_pattern # NULL /\ todo.recurrence_pattern \notin RecurrencePatterns

NextDueDone(pattern) ==
    Has(resp, "next") /\ resp.pattern = pattern /\ resp.next # Thrown

\* the civil date y-m-d with d cut down to the last day of the month
ClampedDay(y, m, d) ==
    DaysFromCivil(y, m, IF d > DaysInMonth(y, m) THEN DaysInMonth(y, m) ELSE d)

\* C14: for pattern monthly the next due date of a date on day d of month M
\* is day min(d, last day of M+1) of month M+1, the year incremented after
\* December.
C14_MonthlyClamped ==
    NextDueDone("monthly") =>
        LET c == CivilFromDays(resp.due.day)
        IN  resp.next.day = IF c.m = 12 THEN ClampedDay(c.y + 1, 1, c.d)
                            ELSE ClampedDay(c.y, c.m + 1, c.d)

\* C15: daily is the input date plus 1 calendar day, weekly plus 7 calendar
\* days, yearly the same month and day of the next year (Feb 29 becomes Feb 28).
C15_DailyWeeklyYearly ==
    /\ NextDueDone("daily") => resp.next.day = resp.due.day + 1
    /\ NextDueDone("weekly") => resp.next.day = resp.due.day + 7
    /\ NextDueDone("yearly") =>
          LET c == CivilFromDays(resp.due.day)
          IN  resp.next.day = ClampedDay(c.y + 1, c.m, c.d)

\* C16: for every valid pattern and due date the hour, minute and second of
\* the next due date are those of the input, whatever the zone of the server.
C16_TimeOfDayPreserved ==
    \A pattern \in RecurrencePatterns :
        NextDueDone(pattern) => resp.next.sec = resp.due.sec

C18_UnknownPatternThrows ==
    (Has(resp, "next") /\ resp.pattern \notin RecurrencePatterns) => resp.next = Thrown

\* the calculator has been called with a null pattern and has thrown
C18_Witness ==
    Has(resp, "next") /\ resp.pattern = NULL /\ resp.next = Thrown

(***************************************************************************)
(* Store invariants: claims                                                *)
(***************************************************************************)
\* C19: the positions of the subtasks of each todo are exactly the values
\* 0..N-1, each used once, where N is the number of its subtasks.
C19_PositionsContiguous ==
    \A id \in DOMAIN todos :
        LET own == SubtasksIn(subtasks, id)
        IN  /\ {subtasks[x].position : x \in own} = 0 .. (Cardinality(own) - 1)
            /\ \A x \in own, y \in own : subtasks[x].position = subtasks[y].position => x = y

\* C20: after a todo is deleted no subtask and no tag association refers to
\* it, and the tags and every other todo with its subtasks and tag
\* associations are unchanged; so after every step each subtask and each tag
\* association refers to an existing todo.
C20_DeleteCascades ==
    [][/\ \A id \in DOMAIN todos \ DOMAIN todos' :
             /\ SubtasksIn(subtasks', id) = {}
             /\ TagsIn(todoTags', id) = {}
             /\ tags' = tags
             /\ \A n \in DOMAIN todos \ {id} :
                  /\ n \in DOMAIN todos' /\ todos'[n] = todos[n]
                  /\ TagsIn(todoTags', n) = TagsIn(todoTags, n)
                  /\ SubtasksIn(subtasks', n) = SubtasksIn(subtasks, n)
                  /\ \A x \in SubtasksIn(subtasks, n) : subtasks'[x] = subtasks[x]
       /\ \A x \in DOMAIN subtasks' : subtasks'[x].todo_id \in DOMAIN todos'
       /\ \A tt \in todoTags' : tt[1] \in DOMAIN todos']_vars

\* a todo and a subtask have been deleted while a tag and another todo with
\* a subtask and a tag are still there
C20_Witness ==
    /\ \E id \in 1 .. (nextTodoId - 1) : id \notin DOMAIN todos
    /\ \E x \in 1 .. (nextSubtaskId - 1) : x \notin DOMAIN subtasks
    /\ DOMAIN tags # {}
    /\ \E n \in DOMAIN todos :
          SubtasksIn(subtasks, n) # {} /\ TagsIn(todoTags, n) # {}

(***************************************************************************)
(* Creation: claims                                                        *)
(***************************************************************************)
\* a < b on timestamp strings
StampLT(a, b) == a.day < b.day \/ (a.day = b.day /\ a.sec < b.sec)

\* the current civil time: the wall clock of Asia/Singapore, to the second
civilNow == FormatLocal(AddMs(clock, tzShift))

\* C21: every todo created by a create request or from a template has a due
\* date that is not before the civil time of its creation, and a create
\* request that is rejected leaves the store unchanged.
C21_CreatedNotInPast ==
    [][/\ resp'.status = 201 =>
             \A id \in DOMAIN todos' \ DOMAIN todos :
                 ~StampLT(todos'[id].due_date, civilNow)
       /\ resp'.status = 400 =>
             /\ todos' = todos /\ subtasks' = subtasks /\ todoTags' = todoTags
             /\ tags' = tags /\ templates' = templates]_vars

(***************************************************************************)
(* Stored values: claims                                                   *)
(***************************************************************************)
\* the lead times validateReminderMinutes lets pass
ReminderOptions == {15, 30, 60, 120, 1440, 2880, 10080}

\* C22: the reminder_minutes of every stored todo is null or one of 15, 30,
\* 60, 120, 1440, 2880, 10080.
C22_ReminderMinutesInOptions ==
    \A id \in DOMAIN todos :
        todos[id].reminder_minutes \in ReminderOptions \cup {NullInt}

\* C23: the recurrence pattern of every stored todo is null or one of daily,
\* weekly, monthly, yearly.
C23_PatternInEnum ==
    \A id \in DOMAIN todos :
        todos[id].recurrence_pattern \in RecurrencePatterns \cup {NULL}

\* the completed flag of a row is set
IsCompleted(todo) == TruthyNum(todo.completed)

\* C24: completed_at is set when the completed flag goes from false to true,
\* cleared when it goes from true to false and unchanged by an update that
\* does not change the flag; so a todo has completed_at non-null iff its
\* completed flag is set.
C24_CompletedAtIffCompleted ==
    [][/\ \A id \in DOMAIN todos \cap DOMAIN todos' :
            /\ (~IsCompleted(todos[id]) /\ IsCompleted(todos'[id]))
                  => todos'[id].completed_at # NullStamp
            /\ (IsCompleted(todos[id]) /\ ~IsCompleted(todos'[id]))
                  => todos'[id].completed_at = NullStamp
            /\ (IsCompleted(todos[id]) <=> IsCompleted(todos'[id]))
                  => todos'[id].completed_at = todos[id].completed_at
       /\ \A id \in DOMAIN todos' :
            todos'[id].completed_at # NullStamp <=> IsCompleted(todos'[id])]_vars

(***************************************************************************)
(* Isolation of users: claims                                              *)
(***************************************************************************)
\* the data a user owns in a store: the user's todos and tags, the subtasks of
\* the user's todos and the tag associations of the user's todos and tags
OwnedIn(tds, sts, tgs, tts, u) ==
    [todos    |-> {<<id, tds[id]>> : id \in {x \in DOMAIN tds : tds[x].user_id = u}},
     subtasks |-> {<<s, sts[s]>> : s \in {x \in DOMAIN sts :
                       sts[x].todo_id \in DOMAIN tds /\ tds[sts[x].todo_id].user_id = u}},
     tags     |-> {<<t, tgs[t]>> : t \in {x \in DOMAIN tgs : tgs[x].user_id = u}},
     todoTags |-> {tt \in tts : \/ (tt[1] \in DOMAIN tds /\ tds[tt[1]].user_id = u)
                                \/ (tt[2] \in DOMAIN tgs /\ tgs[tt[2]].user_id = u)}]

\* C25: a request changes the data of no user but the one who sent it, and a
\* reminder check returns only todos of the user who asked.
C25_UsersIsolated ==
    [][/\ \E a \in Users : \A b \in Users \ {a} :
             OwnedIn(todos', subtasks', tags', todoTags', b)
                = OwnedIn(todos, subtasks, tags, todoTags, b)
       /\ (resp'.status = 200 /\ Has(resp', "reminders")) =>
             \A r \in resp'.reminders : todos[r.id].user_id = resp'.user]_vars

(***************************************************************************)
(* Readers: claims                                                         *)
(***************************************************************************)
\* the step is a call of calculateNextDueDate or calculateNextOccurrences
CalculatorDone == Has(resp', "next") \/ Has(resp', "occurrences")

\* the reminder check and the calculator leave these alone
FrameOfReaders ==
    /\ DOMAIN todos' = DOMAIN todos
    /\ subtasks' = subtasks /\ tags' = tags /\ todoTags' = todoTags
    /\ templates' = templates

\* C26: a reminder check sets last_notification_sent of the todos it returns
\* to its `now` and changes nothing else in the store; the recurrence
\* calculator changes nothing in the store.
C26_CheckWritesOnlyLastSent ==
    [][/\ CheckDone' =>
            /\ FrameOfReaders
            /\ \A id \in DOMAIN todos :
                  todos'[id] = IF Returned(id)'
                               THEN [todos[id] EXCEPT
                                       !.last_notification_sent = FormatLocal(getSingaporeNow)]
                               ELSE todos[id]
       /\ CalculatorDone => (FrameOfReaders /\ todos' = todos)]_vars

(***************************************************************************)
(* Reordering of subtasks: claims                                          *)
(***************************************************************************)
\* the positions of the subtasks of a todo are 0..N-1, each used once
Contiguous(table, todoId) ==
    LET own == SubtasksIn(table, todoId)
    IN  /\ {table[x].position : x \in own} = 0 .. (Cardinality(own) - 1)
        /\ \A x \in own, y \in own : table[x].position = table[y].position => x = y

CompletedActive(r, id) ==
    /\ inflight[r].pc = "done" /\ inflight[r].id = id
    /\ inflight[r].completed = 1
    /\ inflight[r].todo.completed = 0
    /\ inflight[r].todo.recurrence_pattern \in RecurrencePatterns

\* C28: of two requests that mark the same active recurring todo complete
\* and overlap in time, exactly one creates a successor.
C28_ConcurrentCompletionsSpawnOnce ==
    \A r1 \in DOMAIN inflight, r2 \in DOMAIN inflight, id \in DOMAIN todos :
        (/\ r1 # r2 /\ r1 \in inflight[r2].overlaps
         /\ CompletedActive(r1, id) /\ CompletedActive(r2, id))
        => Cardinality({r \in {r1, r2} : inflight[r].next_todo # 0}) = 1

(***************************************************************************)
(* Completions and successors: claims                                      *)
(***************************************************************************)
\* this step creates a successor of the todo: a new row that
\* createRecurringInstance makes from it
SpawnsFrom(id) == \E n \in NewTodos : todos'[n] = spawnRow(todos[id])

\* C29: a recurring todo gets a successor in exactly the steps in which its
\* completed flag goes from 0 to 1, one successor per such step; a request
\* that leaves a completed todo completed creates no successor and leaves
\* completed_at unchanged.
C29_SuccessorPerCompletion ==
    [][\A id \in DOMAIN todos :
          todos[id].recurrence_pattern \in RecurrencePatterns =>
             /\ SpawnsFrom(id) <=> Completes(id)
             /\ Completes(id) => Cardinality(NewTodos) = 1
             /\ (id \in DOMAIN todos' /\ todos[id].completed = 1 /\ todos'[id].completed = 1)
                   => todos'[id].completed_at = todos[id].completed_at]_vars

(***************************************************************************)
(* Polling: claims                                                         *)
(***************************************************************************)
\* the todo is incomplete and has a reminder lead time
AwaitsReminder(id) ==
    /\ id \in DOMAIN todos
    /\ todos[id].completed = 0
    /\ todos[id].reminder_minutes # NullInt

\* its due instant has been reached
AtDue(id) ==
    AwaitsReminder(id) /\ DateGE(getSingaporeNow, ParseLocal(todos[id].due_date))

\* the todo exists more than one polling interval before its due instant, and
\* its window is at least one interval long
EarlyEnough(id) ==
    /\ AwaitsReminder(id)
    /\ todos[id].reminder_minutes * MsPerMinute >= PollInterval
    /\ DateLT(AddMs(getSingaporeNow, PollInterval), ParseLocal(todos[id].due_date))

\* some check has returned the todo
EverReturned(id) == id \in DOMAIN fired /\ fired[id].count > 0

\* C30 as stated: under a poller that checks at least once per minute, every
\* todo that stays incomplete with a reminder lead time has been returned by
\* a check when its due instant is reached.
C30_ReturnedBeforeDue ==
    \A id \in DOMAIN todos : AtDue(id) => EverReturned(id)

\* C30: under a poller that checks at least once per minute, a todo that
\* stays incomplete with a lead time of at least one minute and exists more
\* than one minute before its due instant has been returned by a check when
\* its due instant is reached, and is returned as long as the clock runs; the
\* first check inside its window returns it when it has no earlier
\* notification.
C30_ReturnedBeforeDueWhenEarlyEnough ==
    /\ \A id \in 1 .. MaxTodos :
          [](EarlyEnough(id) => [](AtDue(id) => EverReturned(id)))
    /\ \A id \in 1 .. MaxTodos :
          EarlyEnough(id) ~> (EverReturned(id) \/ ~AwaitsReminder(id) \/ ticks = MaxTicks)
    /\ [][CheckDone' =>
            \A id \in DOMAIN todos :
               (/\ todos[id].user_id = resp'.user
                /\ AwaitsReminder(id)
                /\ InWindow(todos[id], getSingaporeNow)
                /\ todos[id].last_notification_sent = NullStamp)
               => Returned(id)']_vars

\* the due instant of a todo whose window opened a minute after its creation
\* has been reached, and a check inside the window has returned it
C30_Witness ==
    \E id \in DOMAIN todos :
        /\ AtDue(id) /\ EverReturned(id)
        /\ todos[id].reminder_minutes = 1
        /\ todos[id].last_notification_sent # NullStamp

====
